---- MODULE Spec2Model ----
(***************************************************************************)
(* Session lifecycle of deliberate-sessions: the Session entity, the       *)
(* handlers built by Session.initSessionsHandlers (fetchSession,           *)
(* storeState, createSession) and the cookie-embedded store, over a keyed  *)
(* store and a cookie jar.                                                 *)
(*                                                                         *)
(* JavaScript values are tagged tuples, so that values of different types  *)
(* can be compared: <<"null">>, <<"boolean", b>>, <<"number", n>>,         *)
(* <<"NaN">>, <<"string", s>>, <<"isostring", ms>> (the string that        *)
(* Date.prototype.toISOString gives for the instant ms) and                *)
(* <<"object", f>>, f a function from the object's own keys to values.     *)
(* Time is in milliseconds, as Date.now() gives it.                        *)
(***************************************************************************)
EXTENDS Integers, Sequences, FiniteSets, TLC

\* ---------------------------------------------------------------- bounds
MaxTicks == 2      \* the clock runs from 0 to MaxTicks seconds
MaxIds == 2        \* identifiers nanoid hands out in one behaviour
MaxRequests == 3   \* requests a behaviour starts
MaxCalls == 1      \* accessor calls the application makes in one behaviour
MaxInFlight == 1   \* requests the client has in flight at once

\* ------------------------------------------------------- JavaScript values
Undefined == <<"undefined">>
Null == <<"null">>
NaN == <<"NaN">>
Bool(b) == <<"boolean", b>>
Num(n) == <<"number", n>>
Str(s) == <<"string", s>>
Iso(ms) == <<"isostring", ms>>
Obj(f) == <<"object", f>>

EmptyMap == [x \in {} |-> Null]

IsObject(v) == v[1] = "object"

\* `v == null`: true of null and of undefined
Nullish(v) == v[1] \in {"null", "undefined"}

\* ToBoolean
Truthy(v) ==
  CASE v[1] \in {"undefined", "null", "NaN"} -> FALSE
    [] v[1] = "boolean" -> v[2]
    [] v[1] = "number" -> v[2] # 0
    [] v[1] = "string" -> v[2] # ""
    [] OTHER -> TRUE

\* o[k] on a map of own properties: undefined when k is not a key
Prop(o, k) == IF k \in DOMAIN o THEN o[k] ELSE Undefined

\* o[k] = v
Put(o, k, v) == [x \in (DOMAIN o) \cup {k} |-> IF x = k THEN v ELSE o[x]]

\* delete o[k]
Del(o, k) == [x \in (DOMAIN o) \ {k} |-> o[x]]

\* a function object, as the methods every object inherits are
Fn(name) == <<"function", name>>

\* names every object inherits from Object.prototype; toString stands for
\* them all (constructor, hasOwnProperty, valueOf, ...)
Inherited == {"toString"}

\* `k in o`: own keys and inherited ones
In(o, k) == k \in DOMAIN o \/ k \in Inherited

\* o[k] where `k in o`: the own property, else the inherited method
Read(o, k) == IF k \in DOMAIN o THEN o[k] ELSE Fn(k)

\* new Date(v).getTime(): the instant of an ISO string or of a number of
\* milliseconds, NaN for anything that is no date
DateTime(v) ==
  CASE v[1] = "isostring" -> Num(v[2])
    [] v[1] = "number" -> Num(v[2])
    [] v[1] = "boolean" -> Num(IF v[2] THEN 1 ELSE 0)
    [] v[1] = "null" -> Num(0)
    [] OTHER -> NaN

\* a < b on numbers: false when either side is NaN
LessThan(a, b) == a[1] = "number" /\ b[1] = "number" /\ a[2] < b[2]

\* ------------------------------------------------------------------ JSON
\* A JSON text is a sequence of tokens: punctuation, the literals null, true
\* and false, and the number and string values themselves.
Punct(c) == <<"punct", c>>
Literal(w) == <<"literal", w>>

\* values JSON.stringify leaves out of an object
Omitted(v) == v[1] \in {"undefined", "function"}

RECURSIVE Stringify(_)
RECURSIVE Members(_, _)

\* the members of the object with own properties f, for the keys in S
Members(f, S) ==
  IF S = {} THEN <<>>
  ELSE LET k == CHOOSE x \in S : TRUE
           rest == Members(f, S \ {k})
       IN IF Omitted(f[k]) THEN rest
          ELSE <<Str(k), Punct(":")>> \o Stringify(f[k])
               \o (IF rest = <<>> THEN <<>> ELSE <<Punct(",")>> \o rest)

\* JSON.stringify(v): NaN is written as null, an undefined member is left out
Stringify(v) ==
  CASE v[1] = "null" -> <<Literal("null")>>
    [] v[1] = "NaN" -> <<Literal("null")>>
    [] v[1] = "boolean" -> <<Literal(IF v[2] THEN "true" ELSE "false")>>
    [] v[1] = "object" ->
         <<Punct("{")>> \o Members(v[2], DOMAIN v[2]) \o <<Punct("}")>>
    [] OTHER -> <<v>>

SyntaxError == [ok |-> FALSE, val |-> Undefined, next |-> 0]
Parsed(v, n) == [ok |-> TRUE, val |-> v, next |-> n]

RECURSIVE ParseValue(_, _)
RECURSIVE ParseMembers(_, _, _, _)

\* the members of an object from token i on; first: no member was read yet
ParseMembers(t, i, acc, first) ==
  IF i > Len(t) THEN SyntaxError
  ELSE IF first /\ t[i] = Punct("}") THEN Parsed(Obj(acc), i + 1)
  ELSE IF i + 1 > Len(t) \/ t[i][1] # "string" \/ t[i + 1] # Punct(":")
       THEN SyntaxError
  ELSE LET r == ParseValue(t, i + 2)
       IN IF ~r.ok \/ r.next > Len(t) THEN SyntaxError
          ELSE LET obj == Put(acc, t[i][2], r.val)
               IN IF t[r.next] = Punct("}") THEN Parsed(Obj(obj), r.next + 1)
                  ELSE IF t[r.next] = Punct(",")
                       THEN ParseMembers(t, r.next + 1, obj, FALSE)
                  ELSE SyntaxError

\* the value that starts at token i
ParseValue(t, i) ==
  IF i > Len(t) THEN SyntaxError
  ELSE CASE t[i] = Literal("null") -> Parsed(Null, i + 1)
         [] t[i] = Literal("true") -> Parsed(Bool(TRUE), i + 1)
         [] t[i] = Literal("false") -> Parsed(Bool(FALSE), i + 1)
         [] t[i][1] \in {"number", "string", "isostring"} -> Parsed(t[i], i + 1)
         [] t[i] = Punct("{") -> ParseMembers(t, i + 1, EmptyMap, TRUE)
         [] OTHER -> SyntaxError

\* JSON.parse(text): ok is false when it throws a SyntaxError
JSONParse(text) ==
  LET r == ParseValue(text, 1)
  IN IF r.ok /\ r.next = Len(text) + 1 THEN r ELSE SyntaxError

\* ---------------------------------------------------------------- crypto
\* what decryption with another key gives: bytes that are no JSON text
GarbageText == <<<<"garbage">>>>

\* a cookie value that is no ciphertext at all
Tampered == <<"tampered">>

encryptCryptoJSAES(text, key) == <<"ciphertext", key, text>>

\* ok is false when decryption throws
decryptCryptoJSAES(c, key) ==
  IF c[1] # "ciphertext" THEN [ok |-> FALSE, text |-> <<>>]
  ELSE IF c[2] = key THEN [ok |-> TRUE, text |-> c[3]]
  ELSE [ok |-> TRUE, text |-> GarbageText]

\* ------------------------------------------------------- Session entity
\* A Session is its sid and its data, a map of own properties. NoSession
\* stands for null.
SessionOf(sid, data) == [some |-> TRUE, sid |-> sid, data |-> data]
NoSession == [some |-> FALSE, sid |-> "", data |-> EmptyMap]

\* what an accessor gives: the data afterwards, the value returned, and
\* whether it threw a TypeError instead
Returned(data, v) == [data |-> data, ret |-> v, thrown |-> FALSE]
Threw(data) == [data |-> data, ret |-> Undefined, thrown |-> TRUE]

\* get that reads a flash entry and leaves it in _flash
get_keepsFlash(data, key) ==
  IF In(data, key) THEN Returned(data, Read(data, key))
  ELSE LET fl == Prop(data, "_flash")
       IN IF Nullish(fl) THEN Threw(data)
          ELSE IF IsObject(fl) THEN Returned(data, Prop(fl[2], key))
          ELSE Returned(data, Undefined)

\* Session.get: a key of the data is read in place; any other key is read
\* from _flash and deleted there
get(data, key) ==
  IF In(data, key) THEN Returned(data, Read(data, key))
  ELSE LET fl == Prop(data, "_flash")
       IN IF Nullish(fl) THEN Threw(data)
          ELSE IF IsObject(fl)
               THEN Returned(Put(data, "_flash", Obj(Del(fl[2], key))),
                             Prop(fl[2], key))
          ELSE Returned(data, Undefined)

\* Session.set: null and undefined delete the key
set(data, key, value) ==
  IF Nullish(value) THEN Returned(Del(data, key), Undefined)
  ELSE Returned(Put(data, key, value), Undefined)

\* Session.flash: an assignment into data._flash, which throws in a module
\* (strict mode) when _flash is missing or is no object
flash(data, key, value) ==
  LET fl == Prop(data, "_flash")
  IN IF IsObject(fl)
     THEN Returned(Put(data, "_flash", Obj(Put(fl[2], key, value))), Undefined)
     ELSE Threw(data)

\* Session.has: `in` throws on a _flash that is no object
has(data, key) ==
  IF In(data, key) THEN Returned(data, Bool(TRUE))
  ELSE LET fl == Prop(data, "_flash")
       IN IF IsObject(fl) THEN Returned(data, Bool(In(fl[2], key)))
          ELSE Threw(data)

\* Session.deleteSession
deleteSession(data) == Returned(Put(data, "_delete", Bool(TRUE)), Undefined)

\* sessionValid with the comparison turned inclusive: a session is still
\* valid at the instant of its _expire
sessionValid_inclusive(sessionData, t) ==
  \/ Nullish(Prop(sessionData, "_expire"))
  \/ ~LessThan(DateTime(Prop(sessionData, "_expire")), Num(t))

\* Session.sessionValid at the instant t
sessionValid(sessionData, t) ==
  \/ Nullish(Prop(sessionData, "_expire"))
  \/ LessThan(Num(t), DateTime(Prop(sessionData, "_expire")))

\* the _expire of a session made or renewed at t
ExpireAt(expiration, t) ==
  IF Truthy(expiration) THEN Iso(t + expiration[2] * 1000) ELSE Null

\* reupSession that renews _expire to now although no window is configured
reupSession_stamps(data, expiration, t) ==
  Put(data, "_expire",
      IF Truthy(expiration) THEN Iso(t + expiration[2] * 1000) ELSE Iso(t))

\* reupSession that leaves _expire as it was stored
reupSession_keeps(data, expiration, t) == data

\* Session.reupSession
reupSession(data, expiration, t) == Put(data, "_expire", ExpireAt(expiration, t))

\* the data of a new session
DefaultData(expiration, t) ==
  [x \in {"_flash", "_accessed", "_expire", "_delete"} |->
     CASE x = "_flash" -> Obj(EmptyMap)
       [] x = "_accessed" -> Iso(t)
       [] x = "_expire" -> ExpireAt(expiration, t)
       [] OTHER -> Bool(FALSE)]

\* ------------------------------------------------------ stores, cookies
\* The world a handler acts on: the keyed store (identifier -> data), the
\* client's cookies (name -> value), the next identifier nanoid gives, and
\* the log of the writes made so far, each <<operation, identifier or name>>.
sessionCookieName == "session"
sessionDataCookieName == "session_data"
encryptionKey == "secret"

Logged(w, op, target) == Append(w.log, <<op, target>>)

cookiesGet(w, name) == Prop(w.cookies, name)

cookiesSet(w, name, value) ==
  [w EXCEPT !.cookies = Put(w.cookies, name, value),
            !.log = Logged(w, "cookies.set", name)]

cookiesDelete(w, name) ==
  [w EXCEPT !.cookies = Del(w.cookies, name),
            !.log = Logged(w, "cookies.delete", name)]

\* Store.createSession
Store_createSession(w, id, data) ==
  [w EXCEPT !.store = Put(w.store, id, data),
            !.log = Logged(w, "store.createSession", id)]

\* Store.getSessionById: the stored data, or null
Store_getSessionById(w, id) ==
  IF id \in DOMAIN w.store THEN Obj(w.store[id]) ELSE Null

\* Store.persistSessionData
Store_persistSessionData(w, id, data) ==
  [w EXCEPT !.store = Put(w.store, id, data),
            !.log = Logged(w, "store.persistSessionData", id)]

\* Store.deleteSession
Store_deleteSession(w, id) ==
  [w EXCEPT !.store = Del(w.store, id),
            !.log = Logged(w, "store.deleteSession", id)]

\* the identifier nanoid gives next, never one it gave before
nanoid(w) == "sid" \o ToString(w.nextId)

\* the outcome of a call that threw instead of returning
Thrown == <<"thrown">>

\* CookieStore.getSessionFromCookie from its try on, without the catch
Decoded_nocatch(sessionDataString) ==
  LET decryptedCookie == decryptCryptoJSAES(sessionDataString, encryptionKey)
  IN IF ~decryptedCookie.ok THEN Thrown
     ELSE LET parsed == JSONParse(decryptedCookie.text)
          IN IF parsed.ok THEN parsed.val ELSE Thrown

\* CookieStore.getSessionFromCookie from its try on: the parsed payload, null
\* when the cookie does not decrypt or does not parse
Decoded(sessionDataString) ==
  LET decryptedCookie == decryptCryptoJSAES(sessionDataString, encryptionKey)
  IN IF ~decryptedCookie.ok THEN Null
     ELSE LET parsed == JSONParse(decryptedCookie.text)
          IN IF parsed.ok THEN parsed.val ELSE Null

\* CookieStore.getSessionFromCookie, with nothing between its two awaits:
\* null when the cookie is missing
CookieStore_getSessionFromCookie(w) ==
  LET sessionDataString == cookiesGet(w, sessionDataCookieName)
  IN IF ~Truthy(sessionDataString) THEN Null ELSE Decoded(sessionDataString)

\* persistSessionData that encrypts under another key than the store reads with
CookieStore_persistSessionData_otherKey(w, data) ==
  cookiesSet(w, sessionDataCookieName,
             encryptCryptoJSAES(Stringify(Obj(data)), "other"))

\* CookieStore.persistSessionData
CookieStore_persistSessionData(w, data) ==
  cookiesSet(w, sessionDataCookieName,
             encryptCryptoJSAES(Stringify(Obj(data)), encryptionKey))

\* CookieStore.createSession
CookieStore_createSession(w, initialData) ==
  cookiesSet(w, sessionDataCookieName,
             encryptCryptoJSAES(Stringify(Obj(initialData)), encryptionKey))

\* CookieStore.deleteSession
CookieStore_deleteSession(w) == cookiesDelete(w, sessionDataCookieName)

\* What a storeState that kept the session left behind, when no other
\* request was in flight during its request: the data it stored and the
\* record of its request. A request that overlaps another, and any later
\* write to the store or to the cookies that is not a storeState, voids it.
NoHandoff ==
  [ok |-> FALSE, data |-> EmptyMap, sets |-> EmptyMap, nullBorn |-> FALSE,
   kept |-> FALSE, at |-> 0]

\* -------------------------------------------------------------- requests
\* A request of the middleware (test/server.ts 27-34): fetchSession, the
\* handler, storeState. Every handler is an async function, so a request
\* moves from one await to the next, and between two of its steps the clock
\* may advance and other requests may move. pc names the await the request
\* is suspended at, by the handler and the line of the await:
\*   fetch:61   cookies.get(sessionCookieName)       fetch:27  cookies.get(payload)
\*   fetch:65   store.getSessionById(sid)            fetch:32  decryptCryptoJSAES
\*   fetch:73   store.deleteSession(sid)
\*   fetch:145  nanoid(21)                           create:145, store:145 likewise
\*   fetch:146  store.createSession(newID, data)     create:146, store:146 likewise
\*   fetch:81   cookies.set(sessionCookieName, sid)  create:111, store:91 likewise
\*   store:89   store.deleteSession(session.sid)
\*   store:163  store.persistSessionData(sid, data)
\*   store:54   encryptCryptoJSAES                   store:55  cookies.set(payload)
\*   store:100  store.deleteSession(session.sid)     store:101 cookies.delete
\* or it is idle (no request), handler (between the calls, in the
\* application's code), done (storeState returned) or failed (a handler
\* threw). The awaited call takes effect when the request moves on.
\*
\* The rest of the record: session is ctx.state.session; op is the handler
\* that is running; work, read and rotate are its locals `session`, `sid`
\* (or the payload read) and rotate_session_key; loaded is the session
\* fetchSession found, branch the branch it took, log the writes of the
\* running handler, at the instant it read the clock and newID the
\* identifier Session.createSession has taken. What the request
\* did so far: sets, the values it set; nullBorn, whether its session came
\* down from one stored with a null _expire that the application has not
\* written since; kept, whether _expire is as the handlers set it; fetched,
\* whether its fetchSession returned a session; alone, whether no other
\* request was in flight at any time since it began; given, what the
\* storeState before it had left when it began.
Idle ==
  [pc |-> "idle", op |-> "", session |-> NoSession, work |-> NoSession,
   read |-> Undefined, rotate |-> FALSE, loaded |-> NoSession, branch |-> "",
   log |-> <<>>, at |-> 0, sets |-> EmptyMap, nullBorn |-> FALSE,
   kept |-> FALSE, fetched |-> FALSE, alone |-> TRUE,
   given |-> NoHandoff, newID |-> ""]

\* the request is suspended at an await of a handler
InCall(pc) == pc \notin {"idle", "handler", "done", "failed"}

\* -------------------------------------------------------------- handlers
World(st, ck, id) == [store |-> st, cookies |-> ck, nextId |-> id, log |-> <<>>]

IsCookieStore(kind) == kind = "cookie"

\* a step of a handler: the world and the request after it
Go(w, q) == [w |-> w, q |-> q]

\* the handler returns the session to the application
Returns(w, q, session) == Go(w, [q EXCEPT !.pc = "handler", !.session = session])

\* a fetchSession that deletes the identifier cookie when it returns null
ReturnsNull_clearsCookie(w, q) ==
  Returns(cookiesDelete(w, sessionCookieName), [q EXCEPT !.branch = "none"], NoSession)

\* fetchSession returns null
ReturnsNull(w, q) == Returns(w, [q EXCEPT !.branch = "none"], NoSession)

\* session.set('_accessed', new Date().toISOString())
Stamped(session, t) ==
  SessionOf(session.sid, set(session.data, "_accessed", Iso(t)).data)

\* Session.createSession that makes default data even when data is handed in
SessionData_defaults(expiration, defaultData, t) == DefaultData(expiration, t)

\* Session.createSession (static), up to its first await: default data unless
\* data is handed in
SessionData(expiration, defaultData, t) ==
  IF Truthy(defaultData) THEN defaultData[2] ELSE DefaultData(expiration, t)

\* Session.createSession (static), its first await: nanoid gives the
\* identifier (line 145) and the request waits for store.createSession
Session_createSession_nanoid(w, q, pc) ==
  Go([w EXCEPT !.nextId = w.nextId + 1], [q EXCEPT !.pc = pc, !.newID = nanoid(w)])

\* Session.createSession that stores nothing under the identifier
Session_createSession_unstored(w, kind, newID, sessionData) ==
  IF ~IsCookieStore(kind)
  THEN [w |-> w, session |-> SessionOf(newID, sessionData)]
  ELSE [w |-> w, session |-> SessionOf("", sessionData)]

\* Session.createSession that writes the payload cookie of a cookie store at
\* once
Session_createSession_writesCookie(w, kind, newID, sessionData) ==
  IF ~IsCookieStore(kind)
  THEN [w |-> Store_createSession(w, newID, sessionData),
        session |-> SessionOf(newID, sessionData)]
  ELSE [w |-> CookieStore_createSession(w, sessionData),
        session |-> SessionOf("", sessionData)]

\* Session.createSession (static), lines 146-149: a keyed store gets the
\* data under the identifier nanoid gave, a cookie store gets nothing and
\* the identifier is ""
Session_createSession(w, kind, newID, sessionData) ==
  IF ~IsCookieStore(kind)
  THEN [w |-> Store_createSession(w, newID, sessionData),
        session |-> SessionOf(newID, sessionData)]
  ELSE [w |-> w, session |-> SessionOf("", sessionData)]

\* persistSessionData that writes nothing
persistSessionData_skips(w, kind, session) == w

\* Session.persistSessionData
persistSessionData(w, kind, session) ==
  IF IsCookieStore(kind) THEN CookieStore_persistSessionData(w, session.data)
  ELSE Store_persistSessionData(w, session.sid, session.data)

\* fetchSession is called and runs up to its first await
fetchSession_begins(q, kind, t) ==
  [q EXCEPT !.op = "fetchSession", !.at = t,
            !.pc = IF IsCookieStore(kind) THEN "fetch:27" ELSE "fetch:61"]

\* fetch:61 -- the identifier cookie is read; no identifier, no session
fetchSession_cookiesGet(w, q) ==
  LET sid == cookiesGet(w, sessionCookieName)
  IN IF ~Truthy(sid) THEN ReturnsNull(w, q)
     ELSE Go(w, [q EXCEPT !.pc = "fetch:65", !.read = sid])

\* fetch:65 -- the store is read; a valid session is renewed and stamped
\* (lines 68-70, 80), an expired one is to be replaced
fetchSession_getSessionById(w, q, expiration, t) ==
  LET sid == q.read[2]
      sessionData == Store_getSessionById(w, sid)
  IN IF ~Truthy(sessionData) THEN ReturnsNull(w, q)
     ELSE IF sessionValid(sessionData[2], t)
          THEN Go(w, [q EXCEPT !.pc = "fetch:81",
                               !.work = Stamped(SessionOf(sid, reupSession(sessionData[2], expiration, t)), t),
                               !.loaded = SessionOf(sid, sessionData[2]),
                               !.branch = "valid", !.at = t])
          ELSE Go(w, [q EXCEPT !.pc = "fetch:73",
                               !.loaded = SessionOf(sid, sessionData[2]),
                               !.branch = "expired", !.at = t])

\* fetch:73 -- the expired entry is deleted and Session.createSession makes
\* the default data (lines 136-141)
fetchSession_deleteSession(w, q, expiration, t) ==
  Go(Store_deleteSession(w, q.read[2]),
     [q EXCEPT !.pc = "fetch:145",
               !.work = SessionOf("", SessionData(expiration, Undefined, t))])

\* fetch:146 -- the new session is stored, then stamped (line 80)
fetchSession_createSession(w, q, kind, t) ==
  LET c == Session_createSession(w, kind, q.newID, q.work.data)
  IN Go(c.w, [q EXCEPT !.pc = "fetch:81", !.work = Stamped(c.session, t),
                       !.newID = ""])

\* fetch:81 -- the identifier cookie is written and the session returned
fetchSession_cookiesSet(w, q) ==
  Returns(cookiesSet(w, sessionCookieName, Str(q.work.sid)), q, q.work)

\* fetch:27 -- the payload cookie is read; no cookie, no session
fetchSession_getSessionFromCookie(w, q) ==
  LET sessionDataString == cookiesGet(w, sessionDataCookieName)
  IN IF ~Truthy(sessionDataString) THEN ReturnsNull(w, q)
     ELSE Go(w, [q EXCEPT !.pc = "fetch:32", !.read = sessionDataString])

\* fetch:32 -- the payload is decrypted and parsed; a valid session is
\* renewed, an expired one is replaced: the payload cookie is deleted (line
\* 56) and Session.createSession, which awaits nothing for a cookie store,
\* makes the new session; either is stamped (line 80). A payload that is
\* no object makes reupSession throw.
fetchSession_decrypt(w, q, kind, expiration, t) ==
  LET sessionData == Decoded(q.read)
  IN IF sessionData = Thrown THEN Go(w, [q EXCEPT !.pc = "failed", !.branch = "error"])
     ELSE IF ~Truthy(sessionData) THEN ReturnsNull(w, q)
     ELSE IF ~IsObject(sessionData) THEN Go(w, [q EXCEPT !.pc = "failed", !.branch = "error"])
     ELSE IF sessionValid(sessionData[2], t)
          THEN Go(w, [q EXCEPT !.pc = "fetch:81",
                               !.work = Stamped(SessionOf("", reupSession(sessionData[2], expiration, t)), t),
                               !.loaded = SessionOf("", sessionData[2]),
                               !.branch = "valid", !.at = t])
          ELSE LET c == Session_createSession(CookieStore_deleteSession(w), kind, "",
                                              SessionData(expiration, Undefined, t))
               IN Go(c.w, [q EXCEPT !.pc = "fetch:81",
                                    !.work = Stamped(c.session, t),
                                    !.loaded = SessionOf("", sessionData[2]),
                                    !.branch = "expired", !.at = t])

\* createSession (the handler) is called: Session.createSession makes the
\* default data and, for a keyed store, awaits; for a cookie store it
\* returns the session, which is stamped and returned (lines 109, 113)
createSession_begins(w, q, kind, expiration, t) ==
  LET sessionData == SessionData(expiration, Undefined, t)
      b == [q EXCEPT !.op = "createSession", !.at = t]
  IN IF IsCookieStore(kind)
     THEN LET c == Session_createSession(w, kind, "", sessionData)
          IN Returns(c.w, b, Stamped(c.session, t))
     ELSE Go(w, [b EXCEPT !.pc = "create:145", !.work = SessionOf("", sessionData)])

\* create:146 -- the new session is stored, then stamped (line 109)
createSession_createSession(w, q, kind, t) ==
  LET c == Session_createSession(w, kind, q.newID, q.work.data)
  IN Go(c.w, [q EXCEPT !.pc = "create:111", !.work = Stamped(c.session, t),
                       !.newID = ""])

\* create:111 -- the identifier cookie is written and the session returned
createSession_cookiesSet(w, q) ==
  Returns(cookiesSet(w, sessionCookieName, Str(q.work.sid)), q, q.work)

\* storeState is called: nothing to do without a session; else it awaits
\* the deletion of a rotation or the write of persistSessionData
storeState_begins(w, q, kind, rotate) ==
  LET b == [q EXCEPT !.op = "storeState", !.rotate = rotate, !.work = q.session]
  IN IF ~q.session.some THEN Go(w, [b EXCEPT !.pc = "done"])
     ELSE IF rotate /\ ~IsCookieStore(kind) THEN Go(w, [b EXCEPT !.pc = "store:89"])
     ELSE Go(w, [b EXCEPT !.pc = IF IsCookieStore(kind) THEN "store:54" ELSE "store:163"])

\* store:89 -- the old entry is deleted; Session.createSession takes the
\* data of the session
storeState_deleteSession(w, q, expiration, t) ==
  Go(Store_deleteSession(w, q.work.sid),
     [q EXCEPT !.pc = "store:145",
               !.work = SessionOf(q.work.sid,
                                  SessionData(expiration, Obj(q.work.data), t))])

\* store:146 -- the data is stored under a new identifier
storeState_createSession(w, q, kind) ==
  LET c == Session_createSession(w, kind, q.newID, q.work.data)
  IN Go(c.w, [q EXCEPT !.pc = "store:91", !.work = c.session, !.newID = ""])

\* store:91 -- the identifier cookie is set to the new identifier
storeState_cookiesSet(w, q) ==
  Go(cookiesSet(w, sessionCookieName, Str(q.work.sid)), [q EXCEPT !.pc = "store:163"])

\* store:163 -- the data is written to the keyed store; a session marked
\* _delete is then to be removed
storeState_persistSessionData(w, q, kind) ==
  Go(persistSessionData(w, kind, q.work),
     [q EXCEPT !.pc = IF Truthy(Prop(q.work.data, "_delete")) THEN "store:100"
                      ELSE "done"])

\* store:54 -- the payload is encrypted
storeState_encrypt(w, q) == Go(w, [q EXCEPT !.pc = "store:55"])

\* store:55 -- the payload cookie is written; for a session marked _delete
\* it is then deleted (line 98)
storeState_payloadSet(w, q, kind) ==
  LET p == persistSessionData(w, kind, q.work)
  IN Go(IF Truthy(Prop(q.work.data, "_delete")) THEN CookieStore_deleteSession(p) ELSE p,
        [q EXCEPT !.pc = "done"])

\* storeState that removes the session it was given, not the one the
\* rotation made
storeState_removal_ofOld(w, q) ==
  Go(Store_deleteSession(w, q.session.sid), [q EXCEPT !.pc = "store:101"])

\* store:100 -- the entry is removed from the keyed store
storeState_removal(w, q) ==
  Go(Store_deleteSession(w, q.work.sid), [q EXCEPT !.pc = "store:101"])

\* the removal without the deletion of the identifier cookie
storeState_cookiesDelete_keepsCookie(w, q) == Go(w, [q EXCEPT !.pc = "done"])

\* store:101 -- the identifier cookie is deleted
storeState_cookiesDelete(w, q) ==
  Go(cookiesDelete(w, sessionCookieName), [q EXCEPT !.pc = "done"])

\* the step the request is suspended at
Resumed(w, q, kind, expiration, t) ==
  CASE q.pc = "fetch:61" -> fetchSession_cookiesGet(w, q)
    [] q.pc = "fetch:65" -> fetchSession_getSessionById(w, q, expiration, t)
    [] q.pc = "fetch:73" -> fetchSession_deleteSession(w, q, expiration, t)
    [] q.pc = "fetch:145" -> Session_createSession_nanoid(w, q, "fetch:146")
    [] q.pc = "fetch:146" -> fetchSession_createSession(w, q, kind, t)
    [] q.pc = "fetch:81" -> fetchSession_cookiesSet(w, q)
    [] q.pc = "fetch:27" -> fetchSession_getSessionFromCookie(w, q)
    [] q.pc = "fetch:32" -> fetchSession_decrypt(w, q, kind, expiration, t)
    [] q.pc = "create:145" -> Session_createSession_nanoid(w, q, "create:146")
    [] q.pc = "create:146" -> createSession_createSession(w, q, kind, t)
    [] q.pc = "create:111" -> createSession_cookiesSet(w, q)
    [] q.pc = "store:89" -> storeState_deleteSession(w, q, expiration, t)
    [] q.pc = "store:145" -> Session_createSession_nanoid(w, q, "store:146")
    [] q.pc = "store:146" -> storeState_createSession(w, q, kind)
    [] q.pc = "store:91" -> storeState_cookiesSet(w, q)
    [] q.pc = "store:163" -> storeState_persistSessionData(w, q, kind)
    [] q.pc = "store:54" -> storeState_encrypt(w, q)
    [] q.pc = "store:55" -> storeState_payloadSet(w, q, kind)
    [] q.pc = "store:100" -> storeState_removal(w, q)
    [] q.pc = "store:101" -> storeState_cookiesDelete(w, q)
    [] OTHER -> Go(w, q)

RECURSIVE Run(_, _, _, _, _)
\* a handler run from the await it is at to its return, with no other
\* request and no tick of the clock in between
Run(w, q, kind, expiration, t) ==
  IF ~InCall(q.pc) THEN Go(w, q)
  ELSE CHOOSE e \in {Run(s.w, s.q, kind, expiration, t) :
                       s \in {Resumed(w, q, kind, expiration, t)}} : TRUE

\* fetchSession run so at the instant t: the world afterwards, the session
\* (NoSession for null), the branch it took, what it loaded, and whether it
\* threw
fetchSession(w, kind, expiration, t) ==
  LET e == Run(w, fetchSession_begins(Idle, kind, t), kind, expiration, t)
  IN [w |-> e.w, session |-> e.q.session, branch |-> e.q.branch,
      loaded |-> e.q.loaded, thrown |-> e.q.pc = "failed"]

\* storeState run so: the world afterwards and the session it ended with
storeState(w, kind, expiration, session, rotate, t) ==
  LET b == storeState_begins(w, [Idle EXCEPT !.pc = "handler", !.session = session],
                             kind, rotate)
      e == Run(b.w, b.q, kind, expiration, t)
  IN [w |-> e.w, session |-> e.q.work]

\* createSession (the handler) run so
createSession(w, kind, expiration, t) ==
  LET b == createSession_begins(w, [Idle EXCEPT !.pc = "handler"], kind, expiration, t)
      e == Run(b.w, b.q, kind, expiration, t)
  IN [w |-> e.w, session |-> e.q.session]

\* ----------------------------------------------------------------- state
VARIABLES
  storeKind,           \* "keyed" (a Store) or "cookie" (a CookieStore)
  expireAfterSeconds,  \* the option: null or a number of seconds
  now,                 \* Date.now()
  store,               \* the keyed store: identifier -> data
  cookies,             \* the client's cookies: name -> value
  nextId,              \* identifiers handed out so far, plus one
  req,                 \* the requests
  started,             \* requests started so far
  calls,               \* accessor calls made so far
  last,                \* the last step: the call it ended, if it ended one
  handoff              \* what the last storeState left for the next request

vars == <<storeKind, expireAfterSeconds, now, store, cookies, nextId, req,
          started, calls, last, handoff>>

\* the requests that may be in flight at once
Requests == {"r1", "r2"}
StoreKinds == {"keyed", "cookie"}
ExpireOptions == {Null, Num(2)}

\* keys and values the application uses; "_expire" is a reserved field name
Keys == {"k", "_expire"}
Values == {Null, Num(7), NaN}

\* The last step. When it ended a call: the operation, the request, the
\* arguments (key, val, rotate; for fetchSession val is the cookie it
\* read), the value returned or thrown, the branch fetchSession took, the
\* session before (what fetchSession loaded, what createSession, storeState
\* and the accessors found in ctx.state) and after, the writes the call
\* made, the instant it read the clock, whether its request is alone, and
\* for fetchSession the handoff it found. A step inside a call is "await".
Call(op, r, key, val, rotate, ret, thrown, branch, before, after, log) ==
  [op |-> op, r |-> r, key |-> key, val |-> val, rotate |-> rotate,
   ret |-> ret, thrown |-> thrown, branch |-> branch,
   before |-> before, after |-> after, log |-> log, at |-> now,
   given |-> NoHandoff, alone |-> TRUE]

Awaits(r) ==
  Call("await", r, "", Undefined, FALSE, Undefined, FALSE, "",
       NoSession, NoSession, <<>>)

Init ==
  /\ storeKind \in StoreKinds
  /\ expireAfterSeconds \in ExpireOptions
  /\ now = 0
  /\ store = EmptyMap
  /\ cookies = EmptyMap
  /\ nextId = 1
  /\ req = [r \in Requests |-> Idle]
  /\ started = 0
  /\ calls = 0
  /\ last = Call("init", "", "", Undefined, FALSE, Undefined, FALSE, "",
                 NoSession, NoSession, <<>>)
  /\ handoff = NoHandoff

TheWorld == World(store, cookies, nextId)

\* the world after a step; no step mints an identifier when nanoid has none
\* left to give
Becomes(w) ==
  /\ w.nextId <= MaxIds + 1
  /\ store' = w.store
  /\ cookies' = w.cookies
  /\ nextId' = w.nextId

\* a request is in flight from its fetchSession to the return of storeState
InFlight(r) == req[r].pc \notin {"idle", "done"}

\* no request is in flight and more are to come
MoreToCome ==
  /\ \A r \in Requests : ~InFlight(r)
  /\ started < MaxRequests

\* a second passes
Tick ==
  /\ now < MaxTicks * 1000
  /\ now' = now + 1000
  /\ last' = [Call("tick", "", "", Undefined, FALSE, Undefined, FALSE, "",
                    NoSession, NoSession, <<>>) EXCEPT !.at = now']
  /\ UNCHANGED <<storeKind, expireAfterSeconds, store, cookies, nextId, req,
                 started, calls, handoff>>

\* the request after fetchSession returned q.session
AfterFetch(q) ==
  [Idle EXCEPT !.pc = "handler", !.session = q.session,
               !.nullBorn = /\ q.branch = "valid"
                            /\ \/ Nullish(Prop(q.loaded.data, "_expire"))
                               \/ q.alone /\ q.given.ok /\ q.given.nullBorn,
               !.kept = q.session.some, !.at = q.at,
               !.fetched = q.session.some, !.alone = q.alone]

\* the request after createSession returned q.session
AfterCreate(q) ==
  [Idle EXCEPT !.pc = "handler", !.session = q.session, !.kept = TRUE,
               !.at = q.at, !.fetched = q.fetched, !.alone = q.alone]

\* the request after storeState returned
AfterStore(q) ==
  [Idle EXCEPT !.pc = "done", !.session = q.session, !.work = q.work,
               !.rotate = q.rotate, !.sets = q.sets, !.alone = q.alone]

\* what the storeState that request q ended hands to the next request
Handed(q) ==
  IF ~q.session.some THEN handoff
  ELSE IF Truthy(Prop(q.work.data, "_delete")) \/ ~q.alone THEN NoHandoff
  ELSE [ok |-> TRUE, data |-> q.work.data, sets |-> q.sets,
        nullBorn |-> q.nullBorn, kept |-> q.kept, at |-> q.at]

\* Request r takes the step s of its handler. Inside the call the writes
\* are added to the log of the call; at its end the call is recorded.
Moves(r, s) ==
  /\ Becomes(s.w)
  /\ LET q == [s.q EXCEPT !.log = req[r].log \o s.w.log]
     IN IF InCall(q.pc)
        THEN /\ req' = [req EXCEPT ![r] = q]
             /\ last' = Awaits(r)
             /\ handoff' = IF q.op # "storeState" /\ s.w.log # <<>>
                           THEN NoHandoff ELSE handoff
        ELSE CASE q.op = "fetchSession" ->
                    /\ req' = [req EXCEPT ![r] = IF q.pc = "failed" THEN Idle
                                                ELSE AfterFetch(q)]
                    /\ last' = [Call("fetchSession", r, "", q.read, FALSE, Undefined,
                                     q.pc = "failed", q.branch, q.loaded, q.session,
                                     q.log)
                                  EXCEPT !.given = IF q.alone THEN q.given
                                                   ELSE NoHandoff,
                                         !.at = q.at,
                                         !.alone = q.alone]
                    /\ handoff' = handoff
               [] q.op = "createSession" ->
                    /\ req' = [req EXCEPT ![r] = AfterCreate(q)]
                    /\ last' = [Call("createSession", r, "", Undefined, FALSE,
                                     Undefined, FALSE, "", req[r].session,
                                     q.session, q.log)
                                  EXCEPT !.at = q.at, !.alone = q.alone]
                    /\ handoff' = IF q.log = <<>> THEN handoff ELSE NoHandoff
               [] OTHER ->
                    /\ req' = [req EXCEPT ![r] = AfterStore(q)]
                    /\ last' = [Call("storeState", r, "", Undefined, q.rotate,
                                     Undefined, FALSE, "", q.session, q.work, q.log)
                                  EXCEPT !.alone = q.alone]
                    /\ handoff' = Handed(q)
  /\ UNCHANGED <<storeKind, expireAfterSeconds, now, started, calls>>

\* request r is suspended at pc and the awaited call completes
Completes(r, pc) ==
  /\ req[r].pc = pc
  /\ Moves(r, Resumed(TheWorld, req[r], storeKind, expireAfterSeconds, now))

\* a request arrives and the middleware calls fetchSession(ctx.cookies),
\* which runs up to its first await
Arrives(r) ==
  /\ ~InFlight(r)
  /\ started < MaxRequests
  /\ started' = started + 1
  /\ LET overlaps == \E o \in Requests \ {r} : InFlight(o)
     IN /\ req' = [o \in Requests |->
                     IF o = r
                     THEN [fetchSession_begins(Idle, storeKind, now)
                             EXCEPT !.alone = ~overlaps,
                                    !.given = IF overlaps THEN NoHandoff ELSE handoff]
                     ELSE IF InFlight(o) THEN [req[o] EXCEPT !.alone = FALSE]
                     ELSE req[o]]
        /\ handoff' = IF overlaps THEN NoHandoff ELSE handoff
  /\ last' = Awaits(r)
  /\ UNCHANGED <<storeKind, expireAfterSeconds, now, store, cookies, nextId, calls>>

\* the requests named before r
Before(r) == IF r = "r2" THEN {"r1"} ELSE {}

\* the client sends a request while it has fewer than MaxInFlight in
\* flight; the request takes the first name that is free
FetchSession(r) ==
  /\ Cardinality({o \in Requests : InFlight(o)}) < MaxInFlight
  /\ \A o \in Before(r) : InFlight(o)
  /\ Arrives(r)

\* the handler calls createSession(ctx.cookies), as /login does
CreateSession(r) ==
  /\ req[r].pc = "handler"
  /\ Moves(r, createSession_begins(TheWorld, req[r], storeKind, expireAfterSeconds, now))

\* an accessor call on the request's session; a TypeError ends the request
\* without storeState
Accessed(r, op, key, val, res, sets, wroteExpire) ==
  /\ req[r].pc = "handler"
  /\ req[r].session.some
  /\ calls < MaxCalls
  /\ calls' = calls + 1
  /\ req' = [req EXCEPT ![r] =
               IF res.thrown THEN Idle
               ELSE [req[r] EXCEPT !.session = SessionOf(req[r].session.sid, res.data),
                                   !.sets = sets,
                                   !.nullBorn = req[r].nullBorn /\ ~wroteExpire,
                                   !.kept = req[r].kept /\ ~wroteExpire]]
  /\ last' = [Call(op, r, key, val, FALSE, res.ret, res.thrown, "",
                   req[r].session, SessionOf(req[r].session.sid, res.data), <<>>)
                EXCEPT !.alone = req[r].alone]
  /\ UNCHANGED <<storeKind, expireAfterSeconds, now, store, cookies, nextId,
                 started, handoff>>

Get(r, key) ==
  Accessed(r, "get", key, Undefined, get(req[r].session.data, key), req[r].sets, FALSE)

Set(r, key, val) ==
  Accessed(r, "set", key, val, set(req[r].session.data, key, val),
           IF Nullish(val) THEN Del(req[r].sets, key) ELSE Put(req[r].sets, key, val),
           key = "_expire")

Flash(r, key, val) ==
  Accessed(r, "flash", key, val, flash(req[r].session.data, key, val), req[r].sets, FALSE)

Has(r, key) ==
  Accessed(r, "has", key, Undefined, has(req[r].session.data, key), req[r].sets, FALSE)

DeleteSession(r) ==
  Accessed(r, "deleteSession", "", Undefined, deleteSession(req[r].session.data),
           req[r].sets, FALSE)

\* the handler is through and the middleware calls
\* storeState(ctx.state.session, ctx.cookies), which runs up to its first
\* await
StoreState(r, rotate) ==
  /\ req[r].pc = "handler"
  /\ Moves(r, storeState_begins(TheWorld, req[r], storeKind, rotate))

\* between two requests the client replaces a cookie by one the server
\* never set: an identifier the store does not know, or a payload that is
\* no ciphertext or is under another key
ForgedCookies ==
  IF IsCookieStore(storeKind)
  THEN {Put(cookies, sessionDataCookieName, c) :
          c \in {Tampered, encryptCryptoJSAES(Stringify(Obj(EmptyMap)), "other")}}
  ELSE {Put(cookies, sessionCookieName, Str("forged"))}

ClientForges ==
  /\ MoreToCome
  /\ \E c \in ForgedCookies : cookies' = c
  /\ last' = Call("forge", "", "", Undefined, FALSE, Undefined, FALSE, "",
                  NoSession, NoSession, <<>>)
  /\ handoff' = NoHandoff
  /\ UNCHANGED <<storeKind, expireAfterSeconds, now, store, nextId, req,
                 started, calls>>

\* the awaits of the handlers with a keyed store
KeyedAwaited(r) ==
  \/ Completes(r, "fetch:61")    \* cookies.get(sessionCookieName)
  \/ Completes(r, "fetch:65")    \* store.getSessionById(sid)
  \/ Completes(r, "fetch:73")    \* store.deleteSession(sid)
  \/ Completes(r, "fetch:145")   \* nanoid(21)
  \/ Completes(r, "fetch:146")   \* store.createSession(newID, data)
  \/ Completes(r, "fetch:81")    \* cookies.set(sessionCookieName, sid)
  \/ Completes(r, "store:89")    \* store.deleteSession(session.sid)
  \/ Completes(r, "store:145")   \* nanoid(21)
  \/ Completes(r, "store:146")   \* store.createSession(newID, data)
  \/ Completes(r, "store:91")    \* cookies.set(sessionCookieName, sid)
  \/ Completes(r, "store:163")   \* store.persistSessionData(sid, data)
  \/ Completes(r, "store:100")   \* store.deleteSession(session.sid)
  \/ Completes(r, "store:101")   \* cookies.delete(sessionCookieName)

\* the awaits of createSession (the handler) with a keyed store
CreateAwaited(r) ==
  \/ Completes(r, "create:145")  \* nanoid(21)
  \/ Completes(r, "create:146")  \* store.createSession(newID, data)
  \/ Completes(r, "create:111")  \* cookies.set(sessionCookieName, sid)

\* the awaits of the handlers with a cookie store, but for the last one of
\* fetchSession (line 81), which both kinds of store share
CookieAwaited(r) ==
  \/ Completes(r, "fetch:27")    \* cookies.get(payload)
  \/ Completes(r, "fetch:32")    \* decryptCryptoJSAES
  \/ Completes(r, "store:54")    \* encryptCryptoJSAES
  \/ Completes(r, "store:55")    \* cookies.set(payload)

Next ==
  \/ Tick
  \/ ClientForges
  \/ \E r \in Requests : FetchSession(r)
  \/ \E r \in Requests : KeyedAwaited(r)
  \/ \E r \in Requests : CookieAwaited(r)
  \/ \E r \in Requests : CreateSession(r)
  \/ \E r \in Requests : CreateAwaited(r)
  \/ \E r \in Requests, k \in Keys : Get(r, k)
  \/ \E r \in Requests, k \in Keys, v \in Values : Set(r, k, v)
  \/ \E r \in Requests, k \in Keys, v \in Values : Flash(r, k, v)
  \/ \E r \in Requests, k \in Keys : Has(r, k)
  \/ \E r \in Requests : DeleteSession(r)
  \/ \E r \in Requests, rotate \in BOOLEAN : StoreState(r, rotate)

Spec == Init /\ [][Next]_vars

\* ---------------------------------------------------------------- claims
ReservedKeys == {"_flash", "_accessed", "_expire", "_delete"}

Keyed == storeKind = "keyed"

\* an _expire of v is in the past at t: sessionValid is false of it
InPast(v, t) == ~Nullish(v) /\ ~LessThan(Num(t), DateTime(v))

\* the session a fetchSession at this point would give
NextFetch == fetchSession(TheWorld, storeKind, expireAfterSeconds, now)

\* C1: with a keyed store, a fetchSession that finds the cookie's session
\* stored with an _expire that is not later than the instant it reads the
\* clock returns a session under another identifier with default data
\* (empty _flash, _delete false, no other keys than the reserved ones); and
\* when no other request is in flight, it has set the identifier cookie to
\* the new identifier and left the old identifier out of the store.
C1_ExpiredIsReplaced ==
  (/\ last.op = "fetchSession"
   /\ Keyed
   /\ last.before.some
   /\ InPast(Prop(last.before.data, "_expire"), last.at))
  => /\ last.after.some
     /\ last.after.sid # last.before.sid
     /\ DOMAIN last.after.data = ReservedKeys
     /\ Prop(last.after.data, "_flash") = Obj(EmptyMap)
     /\ Prop(last.after.data, "_delete") = Bool(FALSE)
     /\ last.alone => /\ Prop(cookies, sessionCookieName) = Str(last.after.sid)
                      /\ last.before.sid \notin DOMAIN store
                      /\ last.after.sid \in DOMAIN store

\* a session that held a user key is fetched at the very instant of its
\* _expire and is replaced
C1_Witness ==
  /\ last.op = "fetchSession"
  /\ Keyed
  /\ last.before.some
  /\ Prop(last.before.data, "_expire") = Iso(last.at)
  /\ "k" \in DOMAIN last.before.data
  /\ last.branch = "expired"

\* C2: when no other request is in flight, after storeState of a session
\* that deleteSession marked, the store holds neither the session's
\* identifier nor one a rotation gave it and the identifier cookie is gone
\* (keyed store), or the payload cookie is gone (cookie store); the next
\* fetchSession of this client returns null.
C2_DeletedIsGone ==
  (/\ last.op = "storeState"
   /\ last.alone
   /\ last.before.some
   /\ Prop(last.before.data, "_delete") = Bool(TRUE))
  => /\ Keyed => /\ last.before.sid \notin DOMAIN store
                 /\ last.after.sid \notin DOMAIN store
                 /\ sessionCookieName \notin DOMAIN cookies
     /\ ~Keyed => sessionDataCookieName \notin DOMAIN cookies
     /\ ~NextFetch.session.some
     /\ ~NextFetch.thrown

C2_Witness ==
  /\ last.op = "storeState"
  /\ Keyed
  /\ last.before.some
  /\ Prop(last.before.data, "_delete") = Bool(TRUE)
  /\ <<"store.deleteSession", last.before.sid>> \in {last.log[i] : i \in DOMAIN last.log}

\* C3: with a keyed store and no other request in flight, after storeState
\* with rotate_session_key of a session that is not marked _delete, the
\* identifier cookie holds a new identifier, the old identifier is not in
\* the store, and the store holds under the new identifier the data the
\* session had when storeState was called.
C3_RotationKeepsData ==
  (/\ last.op = "storeState"
   /\ Keyed
   /\ last.alone
   /\ last.rotate
   /\ last.before.some
   /\ ~Truthy(Prop(last.before.data, "_delete")))
  => /\ last.after.sid # last.before.sid
     /\ Prop(cookies, sessionCookieName) = Str(last.after.sid)
     /\ last.before.sid \notin DOMAIN store
     /\ last.after.sid \in DOMAIN store
     /\ store[last.after.sid] = last.before.data

\* a session with a user key and a flash entry is rotated
C3_Witness ==
  /\ last.op = "storeState"
  /\ Keyed
  /\ last.rotate
  /\ last.before.some
  /\ ~Truthy(Prop(last.before.data, "_delete"))
  /\ "k" \in DOMAIN last.before.data


\* a value JSON.stringify and JSON.parse give back as it was
RECURSIVE JsonSafe(_)
JsonSafe(v) ==
  CASE v[1] \in {"NaN", "undefined", "function"} -> FALSE
    [] v[1] = "object" -> \A x \in DOMAIN v[2] : JsonSafe(v[2][x])
    [] OTHER -> TRUE

\* the store gives every value back as it was; the cookie store gives back
\* what JSON represents
Kept(v) == Keyed \/ JsonSafe(v)

\* a fetchSession has just returned, on its valid branch, the session that
\* the storeState before it stored
Rehydrated ==
  /\ last.op = "fetchSession"
  /\ last.branch = "valid"
  /\ last.given.ok

\* C4 as stated: after set(k, v) and a storeState that keeps the session, a
\* fetchSession before the session expires returns a session whose get(k) is
\* v, for every key k and every non-null value v, with either store.
C4_Original ==
  Rehydrated =>
    \A k \in DOMAIN last.given.sets :
       ~Nullish(last.given.sets[k]) =>
         get(last.after.data, k).ret = last.given.sets[k]

\* C4 as amended: the same for every key k that is none of the reserved
\* _accessed, _expire, _delete and every non-null value v (with the cookie
\* store: every non-null v that JSON represents).
C4_SetIsFetched ==
  Rehydrated =>
    \A k \in (DOMAIN last.given.sets) \ {"_accessed", "_expire", "_delete"} :
       (~Nullish(last.given.sets[k]) /\ Kept(last.given.sets[k])) =>
         get(last.after.data, k).ret = last.given.sets[k]

\* a value set under a user key comes back from the cookie store
C4_Witness ==
  /\ Rehydrated
  /\ ~Keyed
  /\ "k" \in DOMAIN last.given.sets
  /\ get(last.after.data, "k").ret = Num(7)

\* the flash entries of data: empty when _flash is no object
FlashOf(data) ==
  IF IsObject(Prop(data, "_flash")) THEN data["_flash"][2] ELSE EmptyMap

\* C5 as stated: flash(k, v) followed by get(k) returns v, for every key k
\* and value v.
C5_Original ==
  (last.op = "flash" /\ ~last.thrown)
  => get(last.after.data, last.key).ret = last.val

\* C5 as amended: for every key k that is not a key of the data (`k in
\* data` is false) and every value v, flash(k, v) followed by get(k) returns
\* v and a second get(k) returns undefined; a get(k) that read from _flash
\* is followed by a get(k) that returns undefined; and of the session that
\* storeState stored, the next request's fetchSession returns a session
\* whose first get(k) returns the flashed v (with the cookie store: a v that
\* JSON represents) and whose second get(k) returns undefined, and whose
\* get(k) returns undefined when the entry had been read before storeState.
C5_FlashIsReadOnce ==
  /\ (last.op = "flash" /\ ~last.thrown /\ last.key \notin DOMAIN last.after.data)
     => /\ get(last.after.data, last.key).ret = last.val
        /\ get(get(last.after.data, last.key).data, last.key).ret = Undefined
  /\ (last.op = "get" /\ ~last.thrown /\ last.key \notin DOMAIN last.before.data)
     => /\ last.ret = Prop(FlashOf(last.before.data), last.key)
        /\ get(last.after.data, last.key).ret = Undefined
  /\ Rehydrated =>
       \A k \in Keys \ DOMAIN last.after.data :
          /\ (k \in DOMAIN FlashOf(last.given.data) /\ Kept(FlashOf(last.given.data)[k]))
             => get(last.after.data, k).ret = FlashOf(last.given.data)[k]
          /\ k \notin DOMAIN FlashOf(last.given.data)
             => get(last.after.data, k).ret = Undefined
          /\ get(get(last.after.data, k).data, k).ret = Undefined

\* a flashed value that was not read comes back in the next request
C5_Witness ==
  /\ Rehydrated
  /\ "k" \notin DOMAIN last.after.data
  /\ get(last.after.data, "k").ret = Num(7)
  /\ FlashOf(last.given.data) = [x \in {"k"} |-> Num(7)]


\* the data of a session but for the two fields every fetchSession writes
Payload(data) ==
  [x \in (DOMAIN data) \ {"_accessed", "_expire"} |-> data[x]]

\* a fetchSession has just found the client's session stored
Loaded == last.op = "fetchSession" /\ last.before.some

\* the session the client's cookie names is returned, with its data
SameSession ==
  /\ last.branch = "valid"
  /\ last.after.sid = last.before.sid
  /\ Payload(last.after.data) = Payload(last.before.data)

\* C6 as stated: a session stored with a null _expire, and every session
\* that comes down from it through fetchSession/storeState cycles in which
\* the application does not write _expire, is returned by fetchSession under
\* its identifier with its data, whatever expireAfterSeconds is configured
\* and however much time passed.
C6_Original ==
  (/\ Loaded
   /\ \/ Nullish(Prop(last.before.data, "_expire"))
      \/ last.given.ok /\ last.given.nullBorn)
  => SameSession

\* C6 as amended: a fetchSession that finds the session stored with a null
\* _expire returns it under its identifier with its data, whatever
\* expireAfterSeconds is configured; when no expiry window is configured,
\* so does every fetchSession of the cycles that follow, however much time
\* passed.
C6_NullNeverExpires ==
  /\ (Loaded /\ Nullish(Prop(last.before.data, "_expire"))) => SameSession
  /\ (Loaded /\ ~Truthy(expireAfterSeconds) /\ last.given.ok /\ last.given.nullBorn)
     => SameSession

\* without a window, a session made at 0 is fetched again two seconds later,
\* after an earlier cycle
C6_Witness ==
  /\ Loaded
  /\ ~Truthy(expireAfterSeconds)
  /\ last.given.ok /\ last.given.nullBorn
  /\ last.at = 2000
  /\ Prop(last.after.data, "_accessed") = Iso(2000)
  /\ Prop(last.after.data, "_expire") = Null

\* v is a time later than t
InFuture(v, t) == v[1] = "isostring" /\ v[2] > t

\* C7: a session that fetchSession returns on its valid branch has _expire
\* at now + expireAfterSeconds, now being the instant it found the session
\* valid, when a window is configured and null when none is; every session
\* that fetchSession or createSession returns has _expire null or later
\* than the instant the call first read the clock; and a client that comes
\* back less than expireAfterSeconds after its last request, whose handler
\* left _expire as fetchSession or createSession set it, is not given a
\* fresh session in place of its own.
C7_SlidingExpiration ==
  /\ (last.op = "fetchSession" /\ last.branch = "valid")
     => Prop(last.after.data, "_expire") =
          IF Truthy(expireAfterSeconds)
          THEN Iso(last.at + expireAfterSeconds[2] * 1000) ELSE Null
  /\ (last.op \in {"fetchSession", "createSession"} /\ last.after.some)
     => \/ Prop(last.after.data, "_expire") = Null
        \/ InFuture(Prop(last.after.data, "_expire"), last.at)
  /\ (/\ last.op = "fetchSession"
      /\ last.given.ok /\ last.given.kept
      /\ Truthy(expireAfterSeconds)
      /\ last.at - last.given.at < expireAfterSeconds[2] * 1000)
     => /\ last.branch = "valid"
        /\ last.after.sid = last.before.sid

\* with a window of two seconds a session made at 0 and fetched at 1000 is
\* fetched again at 2000, the instant its first _expire named
C7_Witness ==
  /\ last.op = "fetchSession"
  /\ last.branch = "valid"
  /\ expireAfterSeconds = Num(2)
  /\ last.at = 2000
  /\ last.given.ok /\ last.given.kept /\ last.given.at = 1000
  /\ Prop(last.before.data, "_expire") = Iso(3000)
  /\ Prop(last.after.data, "_expire") = Iso(4000)

\* the writes of the last call
Writes == {last.log[i] : i \in DOMAIN last.log}

\* C8: a storeState of a session whose _delete is true writes the session
\* nowhere: no store.createSession and no store.persistSessionData (keyed
\* store), no payload cookie (cookie store); it only removes the session
\* and clears its cookie.
C8_DeletedIsNotWritten ==
  (/\ last.op = "storeState"
   /\ last.before.some
   /\ Prop(last.before.data, "_delete") = Bool(TRUE))
  => \A e \in Writes : e[1] \in {"store.deleteSession", "cookies.delete"}

\* a payload cookie that does not decrypt, or whose text does not parse
Undecodable(c) ==
  LET d == decryptCryptoJSAES(c, encryptionKey)
  IN ~d.ok \/ ~JSONParse(d.text).ok

\* the client's payload cookie is there and is undecodable
BadPayload ==
  /\ IsCookieStore(storeKind)
  /\ Truthy(Prop(cookies, sessionDataCookieName))
  /\ Undecodable(cookies[sessionDataCookieName])

\* the fetchSession that just ran read a payload cookie that is undecodable
ReadBadPayload ==
  /\ IsCookieStore(storeKind)
  /\ last.op = "fetchSession"
  /\ Truthy(last.val)
  /\ Undecodable(last.val)

\* C10: with the cookie store and a payload cookie that is present but does
\* not decrypt or does not parse, getSessionFromCookie returns null and
\* fetchSession returns null without raising and without any write: so it
\* is of the fetchSession that would come next in every state, and so it
\* was of the fetchSession that just ran.
C10_BadPayloadIsNoSession ==
  /\ BadPayload
     => /\ CookieStore_getSessionFromCookie(TheWorld) = Null
        /\ ~NextFetch.thrown
        /\ ~NextFetch.session.some
        /\ NextFetch.w = TheWorld
  /\ ReadBadPayload
     => /\ ~last.thrown
        /\ ~last.after.some
        /\ last.branch = "none"
        /\ last.log = <<>>

\* a fetchSession ran on a payload under another key
C10_Witness ==
  /\ ReadBadPayload
  /\ last.val[1] = "ciphertext"
  /\ last.branch = "none"


\* ------------------------------------------- the cookie store, on its own
\* CookieStore.persistSessionData or CookieStore.createSession of a
\* SessionData d, then CookieStore.getSessionFromCookie on the same cookies.
\* last.val holds d, last.op the call that just ran, last.key the call that
\* wrote the cookie.
MaxDepth == 2       \* how deep the mappings of a SessionData nest

RECURSIVE JsonValues(_)
\* strings, numbers, booleans and mappings of them, nested up to depth deep
JsonValues(depth) ==
  LET leaves == {Str("s"), Num(7), Bool(TRUE), NaN}
  IN IF depth = 0 THEN leaves
     ELSE leaves \cup {Obj(EmptyMap)}
                 \cup {Obj([x \in {"n"} |-> v]) : v \in JsonValues(depth - 1)}

SessionDatas ==
  UNION {[S -> JsonValues(MaxDepth)] : S \in SUBSET {"a", "b"}}

InitCookieStore ==
  /\ storeKind = "cookie"
  /\ expireAfterSeconds = Null
  /\ now = 0
  /\ store = EmptyMap
  /\ cookies = EmptyMap
  /\ nextId = 1
  /\ req = [r \in Requests |-> Idle]
  /\ started = 0
  /\ calls = 0
  /\ handoff = NoHandoff
  /\ \E d \in SessionDatas :
       last = Call("init", "", "", Obj(d), FALSE, Undefined, FALSE, "",
                   NoSession, NoSession, <<>>)

PersistSessionData ==
  /\ last.op = "init"
  /\ LET w == CookieStore_persistSessionData(TheWorld, last.val[2])
     IN /\ Becomes(w)
        /\ last' = Call("persistSessionData", "", "persistSessionData", last.val,
                        FALSE, Undefined, FALSE, "", NoSession, NoSession, w.log)
  /\ UNCHANGED <<storeKind, expireAfterSeconds, now, req, started, calls, handoff>>

CreateCookieSession ==
  /\ last.op = "init"
  /\ LET w == CookieStore_createSession(TheWorld, last.val[2])
     IN /\ Becomes(w)
        /\ last' = Call("createSession", "", "createSession", last.val,
                        FALSE, Undefined, FALSE, "", NoSession, NoSession, w.log)
  /\ UNCHANGED <<storeKind, expireAfterSeconds, now, req, started, calls, handoff>>

GetSessionFromCookie ==
  /\ last.op \in {"persistSessionData", "createSession"}
  /\ last' = Call("getSessionFromCookie", "", last.key, last.val, FALSE,
                  CookieStore_getSessionFromCookie(TheWorld), FALSE, "",
                  NoSession, NoSession, <<>>)
  /\ UNCHANGED <<storeKind, expireAfterSeconds, now, store, cookies, nextId,
                 req, started, calls, handoff>>

NextCookieStore ==
  \/ PersistSessionData
  \/ CreateCookieSession
  \/ GetSessionFromCookie

SpecCookieStore == InitCookieStore /\ [][NextCookieStore]_vars

\* C9 as stated: for every SessionData d of nested mappings, strings,
\* numbers and booleans, getSessionFromCookie after persistSessionData(d),
\* and after createSession(d), returns data equal to d.
C9_Original ==
  last.op = "getSessionFromCookie" => last.ret = last.val

\* C9 as amended: the same for every SessionData d of nested mappings,
\* strings, booleans and numbers other than NaN (and the infinities, which
\* JSON writes as null likewise).
C9_RoundTrip ==
  (last.op = "getSessionFromCookie" /\ JsonSafe(last.val))
  => last.ret = last.val

\* a nested SessionData came back from the cookie that persistSessionData
\* wrote
C9_Witness ==
  /\ last.op = "getSessionFromCookie"
  /\ last.key = "persistSessionData"
  /\ last.val = Obj([x \in {"a", "b"} |->
                       IF x = "a" THEN Obj([y \in {"n"} |-> Obj([z \in {"n"} |-> Num(7)])])
                       ELSE Str("s")])
  /\ last.ret = last.val


\* ------------------------------------------------------ the later claims
\* the last call was one of the accessors the application reads and writes
\* the session with, and it returned
AccessorReturned ==
  /\ last.op \in {"set", "get", "flash", "has"}
  /\ ~last.thrown

\* C11: no call of set, get, flash or has, whatever its key and value,
\* changes or removes _expire or _delete, or leaves _flash anything else
\* than the mapping it was.
C11_ReservedFieldsKept ==
  AccessorReturned =>
    /\ "_expire" \in DOMAIN last.after.data
    /\ Prop(last.after.data, "_expire") = Prop(last.before.data, "_expire")
    /\ Prop(last.after.data, "_delete") = Prop(last.before.data, "_delete")
    /\ IsObject(Prop(last.after.data, "_flash"))


\* ------------------------------------------ the Session entity, on its own
\* The accessors called in any order on the session that createSession
\* returned, with keys that include an inherited name and a reserved one.
MaxAccess == 2      \* accessor calls made on the session

EntityKeys == {"k", "toString", "_flash"}
EntityValues == {Undefined, Null, Num(7)}

\* the handler holds the session createSession gave it at 0
InitEntity ==
  /\ storeKind \in StoreKinds
  /\ expireAfterSeconds \in ExpireOptions
  /\ now = 0
  /\ \E c \in {createSession(World(EmptyMap, EmptyMap, 1), storeKind,
                               expireAfterSeconds, 0)} :
       /\ store = c.w.store
       /\ cookies = c.w.cookies
       /\ nextId = c.w.nextId
       /\ req = [r \in Requests |->
                   IF r = "r1"
                   THEN [Idle EXCEPT !.pc = "handler", !.session = c.session,
                                     !.kept = TRUE]
                   ELSE Idle]
       /\ last = [Call("createSession", "r1", "", Undefined, FALSE, Undefined,
                       FALSE, "", NoSession, c.session, c.w.log)
                    EXCEPT !.at = 0]
  /\ started = 1
  /\ calls = 0
  /\ handoff = NoHandoff

\* an accessor call on the session; a TypeError ends the request
Called(r, op, key, val, res) ==
  /\ req[r].pc = "handler"
  /\ calls < MaxAccess
  /\ calls' = calls + 1
  /\ req' = [req EXCEPT ![r] =
               IF res.thrown THEN Idle
               ELSE [req[r] EXCEPT !.session = SessionOf(req[r].session.sid, res.data)]]
  /\ last' = Call(op, r, key, val, FALSE, res.ret, res.thrown, "",
                  req[r].session, SessionOf(req[r].session.sid, res.data), <<>>)
  /\ UNCHANGED <<storeKind, expireAfterSeconds, now, store, cookies, nextId,
                 started, handoff>>

EntityGet(r, key) ==
  Called(r, "get", key, Undefined, get(req[r].session.data, key))

EntitySet(r, key, val) ==
  Called(r, "set", key, val, set(req[r].session.data, key, val))

EntityFlash(r, key, val) ==
  Called(r, "flash", key, val, flash(req[r].session.data, key, val))

EntityHas(r, key) ==
  Called(r, "has", key, Undefined, has(req[r].session.data, key))

NextEntity ==
  \/ \E r \in Requests, k \in EntityKeys : EntityGet(r, k)
  \/ \E r \in Requests, k \in EntityKeys, v \in EntityValues : EntitySet(r, k, v)
  \/ \E r \in Requests, k \in EntityKeys, v \in EntityValues : EntityFlash(r, k, v)
  \/ \E r \in Requests, k \in EntityKeys : EntityHas(r, k)

SpecEntity == InitEntity /\ [][NextEntity]_vars

\* C12: set(k, null) and set(k, undefined) of a key k that is not flashed
\* are followed by a has(k) that returns false, and leave _flash and every
\* other key as they were; has changes nothing of the data.
C12_NullSetRemoves ==
  /\ (/\ last.op = "set"
      /\ Nullish(last.val)
      /\ last.key \notin DOMAIN FlashOf(last.before.data))
     => /\ ~last.thrown
        /\ ~has(last.after.data, last.key).thrown
        /\ has(last.after.data, last.key).ret = Bool(FALSE)
        /\ Prop(last.after.data, "_flash") = Prop(last.before.data, "_flash")
        /\ \A x \in (DOMAIN last.before.data) \ {last.key} :
              Prop(last.after.data, x) = last.before.data[x]
  /\ (last.op = "has" /\ ~last.thrown) => last.after.data = last.before.data


\* fetchSession or createSession has just returned a session
SessionReturned ==
  /\ last.op \in {"fetchSession", "createSession"}
  /\ ~last.thrown
  /\ last.after.some

\* C13: with a keyed store, when fetchSession (valid branch or expired
\* branch) or createSession returns a session, its sid is not empty and the
\* call wrote the identifier cookie; and when no other request is in
\* flight, the sid is an identifier of the store and is the value of the
\* identifier cookie.
C13_SidIsStored ==
  (Keyed /\ SessionReturned)
  => /\ last.after.sid # ""
     /\ <<"cookies.set", sessionCookieName>> \in Writes
     /\ last.alone => /\ last.after.sid \in DOMAIN store
                      /\ Prop(cookies, sessionCookieName) = Str(last.after.sid)

\* the expired branch returned a session under the second identifier
C13_Witness ==
  /\ Keyed
  /\ SessionReturned
  /\ last.op = "fetchSession"
  /\ last.branch = "expired"
  /\ last.after.sid = "sid2"
  /\ DOMAIN store = {"sid2"}


\* C14: with the cookie store, fetchSession, createSession and storeState
\* write and clear no other cookie than the payload cookie, and the client
\* is never given an identifier cookie.
C14_NoIdentifierCookie ==
  (IsCookieStore(storeKind) /\ last.op \in {"fetchSession", "createSession", "storeState"})
  => /\ \A e \in Writes : e[2] = sessionDataCookieName
     /\ sessionCookieName \notin DOMAIN cookies


\* with the cookie store, createSession or the expired branch of
\* fetchSession has just made a new session
MadeInCookieStore ==
  /\ IsCookieStore(storeKind)
  /\ \/ last.op = "createSession"
     \/ last.op = "fetchSession" /\ last.branch = "expired"

\* the new session has an empty sid and no payload cookie was written
Unwritten ==
  /\ last.after.some
  /\ last.after.sid = ""
  /\ <<"cookies.set", sessionDataCookieName>> \notin Writes

\* with the cookie store, storeState has just stored a session
StoredInCookieStore ==
  /\ IsCookieStore(storeKind)
  /\ last.op = "storeState"
  /\ last.before.some
  /\ ~Truthy(Prop(last.before.data, "_delete"))

\* C15 as stated: with the cookie store, createSession and the expired
\* branch of fetchSession return a session with an empty sid and write no
\* payload cookie, and a request that ends there, without storeState, leaves
\* the client with no session: its next fetchSession returns null.
C15_Original ==
  MadeInCookieStore => (Unwritten /\ ~NextFetch.session.some)

\* C15 as amended: they return a session with an empty sid and write no
\* payload cookie; it is storeState that writes the session's data to the
\* payload cookie. A request that ends without storeState leaves the client
\* without the new session: with no session after the expired branch, which
\* cleared the payload cookie, and after a createSession in a request whose
\* fetchSession returned null; after a createSession that writes nothing at
\* all, the client keeps the payload cookie it came with.
C15_NewSessionUnwritten ==
  /\ MadeInCookieStore => Unwritten
  /\ (MadeInCookieStore /\ last.op = "fetchSession")
     => /\ <<"cookies.delete", sessionDataCookieName>> \in Writes
        /\ last.alone => /\ sessionDataCookieName \notin DOMAIN cookies
                         /\ ~NextFetch.session.some
  /\ (MadeInCookieStore /\ last.op = "createSession")
     => /\ \A e \in Writes : e[2] # sessionDataCookieName
        /\ (last.alone /\ ~last.before.some) => ~NextFetch.session.some
  /\ StoredInCookieStore
     => /\ <<"cookies.set", sessionDataCookieName>> \in Writes
        /\ Prop(cookies, sessionDataCookieName)
             = encryptCryptoJSAES(Stringify(Obj(last.before.data)), encryptionKey)

\* the expired branch made a new session and cleared the payload cookie
C15_Witness ==
  /\ MadeInCookieStore
  /\ last.op = "fetchSession"
  /\ Unwritten
  /\ <<"cookies.delete", sessionDataCookieName>> \in Writes
  /\ "k" \in DOMAIN last.before.data


\* ------------------------------------------- overlapping requests, keyed
\* Requests of one client on a keyed store, as many in flight at once as
\* there are names for them, interleaved at every await of fetchSession and
\* storeState. The handler of a request sets the key of its request or
\* calls deleteSession.

\* the key a request sets: each its own
KeyOf(r) == IF r = "r1" THEN "a" ELSE "b"

\* the client holds the cookie of a session that an earlier request created
\* and stored
InitOverlapping ==
  /\ storeKind = "keyed"
  /\ expireAfterSeconds \in ExpireOptions
  /\ now = 0
  /\ \E c \in {createSession(World(EmptyMap, EmptyMap, 1), storeKind,
                               expireAfterSeconds, 0)} :
       \E s \in {storeState(c.w, storeKind, expireAfterSeconds, c.session,
                             FALSE, 0)} :
          /\ store = s.w.store
          /\ cookies = s.w.cookies
          /\ nextId = s.w.nextId
          /\ last = [Call("storeState", "", "", Undefined, FALSE, Undefined,
                          FALSE, "", c.session, s.session, s.w.log)
                       EXCEPT !.at = 0]
  /\ req = [r \in Requests |-> Idle]
  /\ started = 1
  /\ calls = 0
  /\ handoff = NoHandoff

\* an accessor call of the handler of r that leaves the data as res.data
Handles(r, op, key, val, res, sets) ==
  /\ req[r].pc = "handler"
  /\ req[r].session.some
  /\ req' = [req EXCEPT ![r] =
               [req[r] EXCEPT !.session = SessionOf(req[r].session.sid, res.data),
                              !.sets = sets]]
  /\ last' = [Call(op, r, key, val, FALSE, res.ret, res.thrown, "",
                   req[r].session, SessionOf(req[r].session.sid, res.data), <<>>)
                EXCEPT !.alone = req[r].alone]
  /\ UNCHANGED <<storeKind, expireAfterSeconds, now, store, cookies, nextId,
                 started, calls, handoff>>

\* the handler sets its key
SetsKey(r) ==
  /\ KeyOf(r) \notin DOMAIN req[r].sets
  /\ Handles(r, "set", KeyOf(r), Num(7), set(req[r].session.data, KeyOf(r), Num(7)),
             Put(req[r].sets, KeyOf(r), Num(7)))

\* the handler calls deleteSession
Deletes(r) ==
  /\ ~Truthy(Prop(req[r].session.data, "_delete"))
  /\ Handles(r, "deleteSession", "", Undefined, deleteSession(req[r].session.data),
             req[r].sets)

NextOverlapping ==
  \/ Tick
  \/ \E r \in Requests : Arrives(r)
  \/ \E r \in Requests : KeyedAwaited(r)
  \/ \E r \in Requests : SetsKey(r)
  \/ \E r \in Requests : Deletes(r)
  \/ \E r \in Requests, rotate \in BOOLEAN : StoreState(r, rotate)

SpecOverlapping == InitOverlapping /\ [][NextOverlapping]_vars


\* request r, which overlapped another, was given a session by
\* fetchSession, set its key and stored the session under the sid it was
\* given
StoredItsKey(r) ==
  /\ req[r].pc = "done"
  /\ ~req[r].alone
  /\ req[r].session.some
  /\ KeyOf(r) \in DOMAIN req[r].sets
  /\ ~req[r].rotate
  /\ ~Truthy(Prop(req[r].work.data, "_delete"))

\* C16: when two overlapping requests fetched the same identifier, each set
\* its own key, and both completed storeState, the store's entry for the
\* identifier holds both keys with the values set.
C16_NoLostUpdate ==
  (/\ \A r \in Requests : StoredItsKey(r)
   /\ req["r1"].session.sid = req["r2"].session.sid)
  => /\ req["r1"].session.sid \in DOMAIN store
     /\ \A r \in Requests :
          Prop(store[req["r1"].session.sid], KeyOf(r)) = req[r].sets[KeyOf(r)]

\* request r's storeState has removed from the store the identifier of the
\* session it was called with: by rotation once the deletion of line 89
\* completed, by _delete once the deletion of line 100 completed
HasRemoved(r) ==
  /\ req[r].session.some
  /\ \/ /\ req[r].rotate
        /\ req[r].pc \in {"store:145", "store:146", "store:91", "store:163",
                          "store:100", "store:101", "done"}
     \/ /\ ~req[r].rotate
        /\ Truthy(Prop(req[r].session.data, "_delete"))
        /\ req[r].pc \in {"store:101", "done"}

\* the session a fetchSession gives a client that presents identifier i
Presenting(i) ==
  fetchSession(World(store, Put(cookies, sessionCookieName, Str(i)), nextId),
               storeKind, expireAfterSeconds, now).session

\* C17: once a storeState has removed an identifier from the keyed store,
\* by _delete or by rotation, the identifier is never in the store again
\* and a fetchSession that presents it returns null.
C17_RemovalIsFinal ==
  \A r \in Requests :
     HasRemoved(r) => /\ req[r].session.sid \notin DOMAIN store
                      /\ ~Presenting(req[r].session.sid).some


\* the world at the end of the request, were storeState called now on the
\* session the handler holds
AtRequestEnd(rotate) ==
  storeState(TheWorld, storeKind, expireAfterSeconds, last.after, rotate, now).w

\* C18: with a keyed store, when the handler calls createSession in a
\* request that already had a session, then at the end of the request,
\* after storeState of the new session, the store holds the entry that the
\* identifier cookie names and no other, and the earlier session's
\* identifier is not in the store.
C18_OneSessionPerRequest ==
  (Keyed /\ last.op = "createSession" /\ req[last.r].fetched)
  => \A rotate \in BOOLEAN :
        /\ last.before.sid \notin DOMAIN AtRequestEnd(rotate).store
        /\ \A i \in DOMAIN AtRequestEnd(rotate).store :
              Prop(AtRequestEnd(rotate).cookies, sessionCookieName) = Str(i)


\* C19: a fetchSession that returns null changes nothing: the store, the
\* cookies and the next identifier are as before and no write was made. So
\* it is of the fetchSession that would come next in every state, and so it
\* was of the fetchSession that just ran, which the next one repeats when
\* no other request is in flight.
C19_NullFetchHasNoEffect ==
  /\ (~NextFetch.thrown /\ ~NextFetch.session.some) => NextFetch.w = TheWorld
  /\ (last.op = "fetchSession" /\ ~last.thrown /\ ~last.after.some)
     => /\ last.log = <<>>
        /\ last.alone => /\ NextFetch.w = TheWorld
                         /\ ~NextFetch.session.some

\* with a keyed store that holds a session, a fetchSession presented an
\* identifier the store does not know
C19_Witness ==
  /\ last.op = "fetchSession"
  /\ Keyed
  /\ ~last.after.some
  /\ Truthy(Prop(cookies, sessionCookieName))
  /\ cookies[sessionCookieName][2] \notin DOMAIN store
  /\ store # EmptyMap

\* C20: with a keyed store, after storeState with rotate_session_key of a
\* session whose _delete is true, the rotation has minted an identifier and
\* the removal has deleted it; and when no other request is in flight, the
\* store holds neither the identifier the session came with nor the one
\* the rotation minted, and the identifier cookie is deleted.
C20_RotatedAndDeleted ==
  (/\ last.op = "storeState"
   /\ Keyed
   /\ last.rotate
   /\ last.before.some
   /\ Prop(last.before.data, "_delete") = Bool(TRUE))
  => /\ last.after.sid # last.before.sid
     /\ <<"store.createSession", last.after.sid>> \in Writes
     /\ <<"store.deleteSession", last.after.sid>> \in Writes
     /\ last.alone => /\ last.before.sid \notin DOMAIN store
                      /\ last.after.sid \notin DOMAIN store
                      /\ sessionCookieName \notin DOMAIN cookies

\* the first session was rotated and deleted in one storeState
C20_Witness ==
  /\ last.op = "storeState"
  /\ Keyed
  /\ last.rotate
  /\ last.before.sid = "sid1"
  /\ last.after.sid = "sid2"
  /\ Prop(last.before.data, "_delete") = Bool(TRUE)
  /\ <<"cookies.delete", sessionCookieName>> \in Writes
====
